---- MODULE Spec2Model ----
(***************************************************************************)
(* Chained and signed UPP signing of the ubirch client.                    *)
(*                                                                         *)
(* The repository holds two builds of the chained signer:                  *)
(*   "lock": handlers.ChainingService.HandleRequest calls                  *)
(*           ContextManager.SendChainedUpp, which runs the request inside  *)
(*           a per-uid transaction (main/handlers/services.go);            *)
(*   "chan": main() starts ONE chainer goroutine that reads ONE buffered   *)
(*           channel chainingJobs (main/protocol.go, second main()), the   *)
(*           HTTP handler enqueues the request and waits for the answer.   *)
(* The variable design says which build runs; it never changes.            *)
(*                                                                         *)
(* The bodies of SendChainedUpp and of Signer.chainer are not part of the  *)
(* sources; their critical section is modelled from section 4.6 of the     *)
(* specification (read tip, build, sign, stage, dispatch, commit on        *)
(* success, release).                                                      *)
(***************************************************************************)
EXTENDS Integers, Sequences, FiniteSets, TLC

\* ------------------------------------------------------------------ bounds
NumReq == 2
RequestBufSize == 1
MaxMembers == 2

Reqs == 1..NumReq

\* --------------------------------------------------------------- constants
SignatureLength == 64

StatusOK == 200
StatusBadRequest == 400
StatusUnauthorized == 401
StatusNotFound == 404
StatusInternalServerError == 500
StatusGatewayTimeout == 504

\* http.StatusText for the codes the handlers answer with
StatusText(code) ==
    CASE code = StatusBadRequest -> "Bad Request"
      [] code = StatusUnauthorized -> "Unauthorized"
      [] code = StatusNotFound -> "Not Found"
      [] code = StatusInternalServerError -> "Internal Server Error"
      [] code = StatusGatewayTimeout -> "Gateway Timeout"
      [] OTHER -> "OK"

HashLen == 32
lenRequestID == 16

Registered == {"u1", "u2"}
\* "u0" parses as a UUID but is no registered identity, "bad" does not parse
UidParams == Registered \cup {"u0", "bad"}

anchorHash == "anchor"
disableHash == "disable"
enableHash == "enable"
deleteHash == "delete"
\* "bogus" stands for every operation parameter outside the four
OpParams == {anchorHash, disableHash, enableHash, deleteHash, "bogus"}

Routes == {"chained", "update"}

\* ------------------------------------------------------- the request body
BinType == "application/octet-stream"
TextType == "text/plain"
JSONType == "application/json"

\* What a request carries for its hash: whether its path ends in /hash, its
\* content type, whether its body decodes (hex or base64 for text/plain, JSON
\* for application/json; a binary body is taken as it is) and the length of
\* the decoded body. Only what GetHash looks at is varied.
Hin(hashRoute, ct, decodes, len) ==
    [hashRoute |-> hashRoute, ct |-> ct, decodes |-> decodes, len |-> len]

\* The length of a body on a data route does not matter (it is hashed); it is
\* given as HashLen, the length of its SHA256.
HashInputs ==
    {Hin(TRUE, BinType, TRUE, HashLen), Hin(TRUE, BinType, TRUE, HashLen - 1),
     Hin(TRUE, TextType, TRUE, HashLen), Hin(TRUE, TextType, TRUE, HashLen + 1),
     Hin(TRUE, TextType, FALSE, HashLen), Hin(TRUE, JSONType, TRUE, HashLen),
     Hin(FALSE, JSONType, TRUE, HashLen), Hin(FALSE, JSONType, FALSE, HashLen),
     Hin(FALSE, BinType, TRUE, HashLen), Hin(FALSE, TextType, TRUE, HashLen)}

\* The bodies of a request that is answered before GetHash: the handler does
\* not read them, api assertContentType looks at the content type only.
NoHash == Hin(TRUE, BinType, TRUE, HashLen - 1)
WrongType == Hin(TRUE, JSONType, TRUE, HashLen)

getHashFromHashRequest_noLengthCheck(h) ==
    IF h.ct = TextType /\ ~h.decodes THEN "decoding hash failed"
    ELSE IF h.ct \in {TextType, BinType} THEN ""
    ELSE "invalid content-type for hash"

\* getHashFromHashRequest: "" when the hash is returned, the error otherwise
getHashFromHashRequest(h) ==
    IF h.ct = TextType /\ ~h.decodes THEN "decoding hash failed"
    ELSE IF h.ct \in {TextType, BinType}
         THEN (IF h.len # HashLen THEN "invalid SHA256 hash size" ELSE "")
    ELSE "invalid content-type for hash"

\* getHashFromDataRequest: the SHA256 of the (canonical) data, or the error
getHashFromDataRequest(h) ==
    IF h.ct = JSONType /\ ~h.decodes THEN "unable to parse request body"
    ELSE IF h.ct \in {JSONType, BinType} THEN ""
    ELSE "invalid content-type for original data"

\* GetHash
GetHash(h) ==
    IF h.hashRoute THEN getHashFromHashRequest(h) ELSE getHashFromDataRequest(h)

\* api assertContentType: signHash expects BinType, signJSON expects JSONType
assertContentType(h) ==
    IF h.ct = (IF h.hashRoute THEN BinType ELSE JSONType) THEN ""
    ELSE "Wrong content-type"

\* ------------------------------------------------------------- signatures
\* A signature is its length in bytes and what distinguishes its bytes:
\* val = 0 are zero bytes, val = r the ECDSA signature made for request r
\* (a request signs at most once, two signatures never collide).
EmptySig == [len |-> 0, val |-> 0]
ZeroSig == [len |-> SignatureLength, val |-> 0]
NoSig == [len |-> -1, val |-> 0]
SigOf(r) == [len |-> SignatureLength, val |-> r]

checkSignatureLen(signature) == signature.len = SignatureLength

\* ---------------------------------------------------------------- the UPP
NoUPP == [version |-> "none", uuid |-> "", prev |-> NoSig, hint |-> "", sig |-> NoSig]

hintLookup_anchorAsDisable ==
    [anchor |-> "Disable", disable |-> "Disable", enable |-> "Enable", delete |-> "Delete"]

hintLookup ==
    [anchor |-> "Binary", disable |-> "Disable", enable |-> "Enable", delete |-> "Delete"]

\* Signer.GetChainedUPP: the stored signature goes into PrevSignature as it is
GetChainedUPP(id, signature, newSig) ==
    [version |-> "Chained", uuid |-> id, prev |-> signature, hint |-> "Binary",
     sig |-> newSig]

\* Signer.getSignedUPP
getSignedUPP(id, op, newSig) ==
    [version |-> "Signed", uuid |-> id, prev |-> NoSig, hint |-> hintLookup[op],
     sig |-> newSig]

\* getOperation: the four operations pass, everything else is an error
getOperation(opParam) ==
    opParam \in {anchorHash, disableHash, enableHash, deleteHash}

\* ------------------------------------------------------------ the backend
\* What sendToAuthService returns: an error (a timeout or another error) or
\* the backend's answer with its status code.
\* The backend answers are one of each class: 2xx, 4xx, 5xx. The content of
\* an answer decodes as a UPP or does not, and the payload of the decoded UPP
\* has plen bytes.
BackendCodes == {200, 400, 503}

NoContent == [decodes |-> FALSE, plen |-> 0]

BackendContents ==
    {NoContent} \cup {[decodes |-> TRUE, plen |-> n] : n \in {lenRequestID - 1, lenRequestID}}

Outcomes ==
    {[err |-> "timeout", code |-> 0, content |-> NoContent],
     [err |-> "other", code |-> 0, content |-> NoContent]}
    \cup {[err |-> "none", code |-> c, content |-> b] : c \in BackendCodes, b \in BackendContents}

\* no dispatch happened
NoOutcome == [err |-> "timeout", code |-> 0, content |-> NoContent]

\* ---------------------------------------------------------- the responses
NoBody ==
    [kind |-> "none", text |-> "", hash |-> 0, upp |-> NoUPP, response |-> NoOutcome,
     requestID |-> ""]

NoResponse == [code |-> 0, body |-> NoBody]

\* ErrorResponse: a plain-text body, the status text when no message is given
ErrorResponse(code, message) ==
    [code |-> code,
     body |-> [NoBody EXCEPT !.kind = "text",
                             !.text = IF message = "" THEN StatusText(code) ELSE message]]

\* h.Error: http.Error(w, err.Error(), code), the error's text is the body
Error(err, code) ==
    [code |-> code, body |-> [NoBody EXCEPT !.kind = "text", !.text = err]]

\* getRequestID: the UUID of the first lenRequestID bytes of the payload
getRequestID(content) ==
    IF content.plen < lenRequestID THEN [id |-> "n/a", err |-> TRUE]
    ELSE [id |-> "uuid", err |-> FALSE]

\* getSigningResponse: the receipt; msg stands for the request's hash
getSigningResponse(respCode, msg, upp, backendResp, requestID) ==
    [code |-> respCode,
     body |-> [kind |-> "receipt", text |-> "", hash |-> msg, upp |-> upp,
               response |-> backendResp, requestID |-> requestID]]

\* Signer.SendUPP: the status of the response handed back
SendUPP_timeoutAsOK(out) ==
    IF out.err = "timeout" THEN StatusOK
    ELSE IF out.err = "other" THEN StatusInternalServerError
    ELSE out.code

SendUPP_timeoutAs500(out) ==
    IF out.err = "timeout" THEN StatusInternalServerError
    ELSE IF out.err = "other" THEN StatusInternalServerError
    ELSE out.code

SendUPP(out) ==
    IF out.err = "timeout" THEN StatusGatewayTimeout
    ELSE IF out.err = "other" THEN StatusInternalServerError
    ELSE out.code

\* Signer.SendUPP: the response handed back. requestID starts as the empty
\* string and is assigned only when the backend's answer decodes.
SendUPPResponse(msg, upp, out) ==
    IF out.err # "none" THEN ErrorResponse(SendUPP(out), "")
    ELSE getSigningResponse(SendUPP(out), msg, upp, out,
                            IF out.content.decodes THEN getRequestID(out.content).id
                            ELSE "")

HttpSuccess(code) == code >= 200 /\ code < 300

\* The classes of section 4.5 of a dispatch outcome
Classify(out) ==
    IF out.err = "timeout" THEN "TIMEOUT"
    ELSE IF out.err = "other" THEN "UNAVAILABLE"
    ELSE IF HttpSuccess(out.code) THEN "SUCCESS"
    ELSE IF out.code >= 500 THEN "UNAVAILABLE"
    ELSE "REJECTED"

\* ------------------------------------------------------------------ state
VARIABLES
    design,        \* "lock" or "chan": the build that runs
    identity,      \* uid -> [signature: the persisted chain tip,
                   \*         pending: the tip staged inside the transaction]
    tx,            \* uid -> the request holding the uid's transaction, or 0
    chainingJobs,  \* the buffered channel in front of the chainer
    chainer,       \* the request the chainer goroutine is working on, or 0
    req,           \* request -> its position and what it has built so far
    built,         \* chained requests in the order their envelopes were built
    accepted,      \* chained requests in the order the backend accepted them
    committed,     \* chained requests in the order their signature became tip
    response,      \* the last response written by a handler that answers at
                   \* once (a validation error, or the update route's answer)
    store,         \* uid -> the identity the context manager holds, or NoIdentity
    result,        \* the last call of the identity storage and what it returned
    boot,          \* the startup: the configuration and how far main has come
    doc,           \* the JSON document under canonicalisation and its result
    cancelled,     \* request -> where it was when its caller cancelled, or ""
    auth,          \* two comparisons of a supplied token with the stored one
    proc,          \* the goroutines of main (chainer build) and its channels
    v1             \* the goroutines of the main with the WaitGroup

\* the token comparisons and the goroutines of the two mains
runVars == <<auth, proc, v1>>

\* what the request handlers leave alone
sideVars == <<store, result, boot, doc, cancelled, auth, proc, v1>>

vars == <<design, identity, tx, chainingJobs, chainer, req, built, accepted, committed,
          response, store, result, boot, doc, cancelled, auth, proc, v1>>

NewReq ==
    [pc |-> "new", uid |-> "", route |-> "", op |-> "", hashValid |-> FALSE,
     read |-> NoSig, upp |-> NoUPP, disp |-> "none", sends |-> 0, err |-> "",
     code |-> 0, body |-> NoBody]

\* A response as the caller gets it, with what the request carried: the uuid
\* parameter, whether its token equals the stored one, the operation and
\* whether its body is a hash the routes accept (hashValid). held is the
\* request inside the critical section of the uid when the response was
\* written, or 0. to is the request whose caller gets it.
NewResp ==
    [to |-> 0, route |-> "", uid |-> "", tokenOk |-> FALSE, op |-> "", hashValid |-> FALSE,
     upp |-> NoUPP, disp |-> "none", sends |-> 0, held |-> 0, err |-> "",
     code |-> 0, body |-> NoBody]

\* The body of a request is a hash the routes accept: its content type is one
\* of its route, it decodes, and on a hash route it has HashLen bytes.
ValidHash(h) ==
    /\ h.ct \in (IF h.hashRoute THEN {BinType, TextType} ELSE {BinType, JSONType})
    /\ h.decodes
    /\ h.hashRoute => h.len = HashLen

\* ------------------------------------------------------- identity storage
\* ExtendedProtocol.GetSignature: the stored signature, or an error
GetSignature(ids, uid) ==
    IF checkSignatureLen(ids[uid].signature)
    THEN [err |-> FALSE, sig |-> ids[uid].signature]
    ELSE [err |-> TRUE, sig |-> NoSig]

\* ContextManager.SetSignature inside a transaction: a staged write
CtxSetSignature(ids, uid, signature) ==
    [ids EXCEPT ![uid].pending = signature]

SetSignature_writeThrough(ids, uid, signature) ==
    IF checkSignatureLen(signature)
    THEN [ids EXCEPT ![uid].signature = signature, ![uid].pending = signature]
    ELSE ids

\* ExtendedProtocol.SetSignature
SetSignature(ids, uid, signature) ==
    IF checkSignatureLen(signature)
    THEN CtxSetSignature(ids, uid, signature)
    ELSE ids

\* ContextManager.EndTransaction(uid, success): commit the staged tip or drop it
CtxEndTransaction(ids, uid, commit) ==
    [ids EXCEPT ![uid].signature = IF commit /\ ids[uid].pending # NoSig
                                   THEN ids[uid].pending ELSE @,
                ![uid].pending = NoSig]

\* ------------------------------------------------------------- validation
\* The checks of the request handler up to the first failing one, with the
\* response it writes; NoResponse = passed.
\* lock: ChainingService / SigningService.HandleRequest: GetUUID,
\*       GetAuthToken, CheckAuth, getOperation, GetHash
\* chan: api signHash / signJSON: assertContentType, checkAuth, then the hash
Validate(d, route, uidParam, tokenOk, opParam, h) ==
    IF d = "lock"
    THEN IF uidParam = "bad" THEN Error("invalid UUID", StatusNotFound)
         ELSE IF uidParam \notin Registered
              THEN Error("GetAuthToken: identity not found", StatusInternalServerError)
         ELSE IF ~tokenOk THEN Error("invalid auth token", StatusUnauthorized)
         ELSE IF route = "update" /\ ~getOperation(opParam)
              THEN Error("invalid operation", StatusNotFound)
         ELSE IF GetHash(h) # "" THEN Error(GetHash(h), StatusBadRequest)
         ELSE NoResponse
    ELSE IF assertContentType(h) # "" THEN Error(assertContentType(h), StatusBadRequest)
         ELSE IF uidParam = "bad" THEN Error("unable to parse as UUID", StatusNotFound)
         ELSE IF uidParam \notin Registered THEN Error("unknown UUID", StatusNotFound)
         ELSE IF ~tokenOk THEN Error("invalid \"X-Auth-Token\"", StatusUnauthorized)
         ELSE IF route = "update" /\ ~getOperation(opParam)
              THEN Error("invalid operation", StatusNotFound)
         ELSE IF GetHash(h) # "" THEN Error(GetHash(h), StatusBadRequest)
         ELSE NoResponse

\* The bodies to try for a request: every one when the handler gets to
\* GetHash, else the ones the checks before it tell apart.
HashDomain(d, reachesHash) ==
    IF reachesHash THEN HashInputs
    ELSE IF d = "chan" THEN {NoHash, WrongType} ELSE {NoHash}

\* What the checks make of the bodies to try: the response and whether the
\* body was a valid hash. Bodies the handler treats alike are tried once.
Validated(d, route, uidParam, tokenOk, opParam) ==
    {[resp |-> Validate(d, route, uidParam, tokenOk, opParam, h), hashValid |-> ValidHash(h)] :
        h \in HashDomain(d, tokenOk /\ (route = "update" => getOperation(opParam)))}

Rejected_afterDispatch(route, uidParam, tokenOk, opParam, v) ==
    [NewResp EXCEPT !.route = route, !.uid = uidParam, !.tokenOk = tokenOk,
                    !.op = opParam, !.hashValid = v.hashValid,
                    !.sends = 1, !.disp = "SUCCESS",
                    !.code = v.resp.code, !.body = v.resp.body]

\* The response to a request that failed a check
Rejected(route, uidParam, tokenOk, opParam, v) ==
    [NewResp EXCEPT !.route = route, !.uid = uidParam, !.tokenOk = tokenOk,
                    !.op = opParam, !.hashValid = v.hashValid,
                    !.code = v.resp.code, !.body = v.resp.body]

\* the request inside the critical section of the uid, or 0
Holder(t, uidParam) == IF uidParam \in Registered THEN t[uidParam] ELSE 0

\* ------------------------------------------------- the stored identities
\* ent.Identity: the keys and the token are empty ("") or not
AuthTokens == {"", "t1", "t2"}
PrivateKeys == {"", "priv"}
PublicKeys == {"", "pub"}

\* signatures of the lengths around SignatureLength: empty, one byte short,
\* exact, one byte long
ShortSig == [len |-> SignatureLength - 1, val |-> 0]
LongSig == [len |-> SignatureLength + 1, val |-> 0]
Signatures == {EmptySig, ShortSig, ZeroSig, LongSig}

Identities ==
    [Uid : Registered, PrivateKey : PrivateKeys, PublicKey : PublicKeys,
     Signature : Signatures, AuthToken : AuthTokens]

NoIdentity ==
    [Uid |-> "", PrivateKey |-> "", PublicKey |-> "", Signature |-> NoSig, AuthToken |-> ""]

NoResult == [op |-> "", id |-> NoIdentity, fresh |-> FALSE, ctxOk |-> FALSE, err |-> "", token |-> ""]

\* ContextManager.StoreIdentity: creates the identity; fails if the uid
\* exists, or when the store does (ctxOk = FALSE)
CtxStoreIdentity(st, id, ctxOk) ==
    IF st[id.Uid] # NoIdentity THEN [err |-> "exists", store |-> st]
    ELSE IF ~ctxOk THEN [err |-> "store", store |-> st]
    ELSE [err |-> "", store |-> [st EXCEPT ![id.Uid] = id]]

StoreIdentityCheck_noTokenCheck(id) ==
    IF ~checkSignatureLen(id.Signature) THEN "invalid signature length"
    ELSE IF id.PrivateKey = "" THEN "private key is empty"
    ELSE IF id.PublicKey = "" THEN "public key is empty"
    ELSE ""

\* ExtendedProtocol.StoreIdentity, the checks of the attributes: the error
\* of the first failing one, or ""
StoreIdentityCheck(id) ==
    IF id.AuthToken = "" THEN "empty token"
    ELSE IF ~checkSignatureLen(id.Signature) THEN "invalid signature length"
    ELSE IF id.PrivateKey = "" THEN "private key is empty"
    ELSE IF id.PublicKey = "" THEN "public key is empty"
    ELSE ""

\* ContextManager.GetAuthToken: the stored token; for a uid it does not hold
\* an error (found = FALSE), or the zero value of a lookup that misses
CtxGetAuthToken(st, uid, found) ==
    IF st[uid] # NoIdentity THEN [err |-> "", token |-> st[uid].AuthToken]
    ELSE IF found THEN [err |-> "", token |-> ""]
    ELSE [err |-> "not found", token |-> ""]

\* ExtendedProtocol.GetAuthToken on what the context manager returned
GetAuthToken(got) ==
    IF got.err # "" THEN [err |-> got.err, token |-> ""]
    ELSE IF got.token = "" THEN [err |-> "empty auth token", token |-> ""]
    ELSE [err |-> "", token |-> got.token]

\* ------------------------------------------------------ the configuration
SecretLen == 16

\* Config.Secret: it does not decode as base64, or it decodes to len bytes
Secrets ==
    {[decodes |-> FALSE, len |-> 0]}
        \cup {[decodes |-> TRUE, len |-> l] : l \in {SecretLen - 1, SecretLen, SecretLen + 1}}

\* Config as the file and the environment give it: the uids of Devices, the
\* secret, StaticKeys, the uids of Keys (the injected keys) and whether DSN is
\* set
Configs ==
    [Devices : SUBSET Registered, Secret : Secrets, StaticKeys : BOOLEAN,
     Keys : SUBSET Registered, DSN : BOOLEAN]

NoConfig ==
    [Devices |-> {}, Secret |-> [decodes |-> FALSE, len |-> 0], StaticKeys |-> FALSE,
     Keys |-> {}, DSN |-> FALSE]

\* the token Devices gives every uid
DeviceToken == "t1"

checkMandatory_noSecretCheck(c) ==
    IF c.Devices = {} THEN "no devices"
    ELSE IF c.StaticKeys /\ c.Keys = {} THEN "no injected keys"
    ELSE ""

\* Config.checkMandatory: the error, or ""
checkMandatory(c) ==
    IF c.Devices = {} THEN "no devices"
    ELSE IF c.Secret.len # SecretLen THEN "secret length"
    ELSE IF c.StaticKeys /\ c.Keys = {} THEN "no injected keys"
    ELSE ""

\* Config.Load: the error, or "". fileOk: loadEnv / loadFile; mapsOk:
\* loadAuthMap and loadIdentitiesFile; urlsOk: setDefaultURLs
Load(c, fileOk, mapsOk, urlsOk) ==
    IF ~fileOk THEN "load"
    ELSE IF ~c.Secret.decodes THEN "secret base64"
    ELSE IF ~mapsOk THEN "identities"
    ELSE IF checkMandatory(c) # "" THEN checkMandatory(c)
    ELSE IF ~urlsOk THEN "env"
    ELSE ""

\* Config.GetCtxManager: the error, or ""
GetCtxManager(c) == IF c.DSN THEN "database not supported" ELSE ""

\* the answers of the identity service to a registration
RegCodes == {200, 201, 400, 409, 500}

registrationOk_anyAnswer(code) == TRUE

\* Identity Registrar, step 1b: 2xx and 409 are success
registrationOk(code) == HttpSuccess(code) \/ code = 409

deviceKey_generatesWhenStatic(c, uid) ==
    IF uid \in c.Keys THEN "injected" ELSE "generated"

\* Identity Registrar, step 1a: the injected key, a generated one, or none
deviceKey(c, uid) ==
    IF uid \in c.Keys THEN "injected"
    ELSE IF c.StaticKeys THEN "none"
    ELSE "generated"

\* the identity the registrar stores for a uid (step 1c)
NewIdentity(uid) ==
    [Uid |-> uid, PrivateKey |-> "priv", PublicKey |-> "pub", Signature |-> EmptySig,
     AuthToken |-> DeviceToken]

\* an identity an earlier run has stored
Existing(uid, authToken) ==
    [Uid |-> uid, PrivateKey |-> "priv", PublicKey |-> "pub", Signature |-> ZeroSig,
     AuthToken |-> authToken]

\* main before it has run: existing = the uids the storage holds at the start,
\* inited = the uids initDeviceKeys has come to, generated = the uids it
\* generated a key pair for, regs = the answer to the registration of a uid
\* (0: none)
NoBoot ==
    [pc |-> "off", conf |-> NoConfig, err |-> "", existing |-> {}, inited |-> {},
     generated |-> {}, regs |-> [u \in Registered |-> 0]]

\* ------------------------------------------------------- JSON documents
\* A JSON text: the members of its top-level object in the order of the
\* text, and whether it has insignificant whitespace (ws). A value is a
\* number or an object of up to two members whose values are numbers.
JKeys == {"a", "b"}

\* the order of the keys as byte strings
KeyRank(k) == IF k = "a" THEN 1 ELSE 2

JNum(n) == [t |-> "num", n |-> n, o |-> <<>>]
JObj(o) == [t |-> "obj", n |-> 0, o |-> o]

InnerMembers == [k : JKeys, v : {JNum(1)}]
InnerObjects == UNION {[1..m -> InnerMembers] : m \in 0..2}
JMembers == [k : JKeys, v : {JNum(1), JNum(2)} \cup {JObj(o) : o \in InnerObjects}]
JTexts == [ws : BOOLEAN, members : UNION {[1..m -> JMembers] : m \in 0..MaxMembers}]

NoText == [ws |-> FALSE, members |-> <<>>]
\* sha256.Sum256: HashLen bytes that stand for the data they were computed of
Sum256(data) == [len |-> HashLen, of |-> data]
NoSum == [len |-> 0, of |-> NoText]

\* doc: two texts, their canonical forms (out1, out2), and the payloads of the
\* envelopes of a hash request (pay1) and a data request (pay2)
NoDoc ==
    [in1 |-> NoText, in2 |-> NoText, out1 |-> NoText, out2 |-> NoText, done |-> {},
     pay1 |-> NoSum, pay2 |-> NoSum]

JKeysOf(s) == {s[i].k : i \in DOMAIN s}

\* the value of the last member of s with key k
LastOf(s, k) ==
    s[CHOOSE i \in DOMAIN s : s[i].k = k /\ \A j \in DOMAIN s : s[j].k = k => j <= i].v

\* json.Unmarshal into interface{}: an object becomes a map from its keys to
\* their values; of members with the same key the last one stays
RECURSIVE UnmarshalObject(_)
UnmarshalObject(s) ==
    [k \in JKeysOf(s) |->
        IF LastOf(s, k).t = "obj"
        THEN [t |-> "obj", n |-> 0, o |-> UnmarshalObject(LastOf(s, k).o)]
        ELSE LastOf(s, k)]

Unmarshal(data) == UnmarshalObject(data.members)

\* the keys of S in ascending order
SortedKeys(S) ==
    CHOOSE ks \in [1..Cardinality(S) -> S] :
        \A i, j \in 1..Cardinality(S) : i < j => KeyRank(ks[i]) < KeyRank(ks[j])

\* the encoder on a map: its members with the keys sorted
RECURSIVE MarshalObject(_)
MarshalObject(m) ==
    LET ks == SortedKeys(DOMAIN m)
    IN  [i \in 1..Cardinality(DOMAIN m) |->
            [k |-> ks[i],
             v |-> IF m[ks[i]].t = "obj" THEN JObj(MarshalObject(m[ks[i]].o))
                   ELSE m[ks[i]]]]

\* jsonMarshal: Encoder.Encode writes the text and a newline
jsonMarshal(v) == [ws |-> TRUE, members |-> MarshalObject(v)]

\* json.Compact: the text without its insignificant whitespace
Compact(text) == [text EXCEPT !.ws = FALSE]

GetSortedCompactJSON_compactOnly(data) == Compact(data)

GetSortedCompactJSON(data) == Compact(jsonMarshal(Unmarshal(data)))

HashOfDataRequest_hashesBody(ct, data) ==
    IF ct \in {JSONType, BinType} THEN [err |-> "", hash |-> Sum256(data)]
    ELSE [err |-> "invalid content-type for original data", hash |-> NoSum]

\* getHashFromDataRequest on the body itself: the hash of the sorted compact
\* JSON, or of the bytes as they are
HashOfDataRequest(ct, data) ==
    IF ct = JSONType THEN [err |-> "", hash |-> Sum256(GetSortedCompactJSON(data))]
    ELSE IF ct = BinType THEN [err |-> "", hash |-> Sum256(data)]
    ELSE [err |-> "invalid content-type for original data", hash |-> NoSum]

\* getHashFromHashRequest on the body itself (a text body is taken as
\* decoded): the body, if it has HashLen bytes
HashOfHashRequest(ct, body) ==
    IF ct \notin {BinType, TextType}
    THEN [err |-> "invalid content-type for hash", hash |-> NoSum]
    ELSE IF body.len # HashLen THEN [err |-> "invalid SHA256 hash size", hash |-> NoSum]
    ELSE [err |-> "", hash |-> body]

\* Signer.GetChainedUPP / getSignedUPP: the payload of the envelope is the hash
Payload(hash) == hash

\* the orders of the members of s that differ only in the order of the keys:
\* members with the same key stay in their order
Reordered(s) ==
    {[i \in DOMAIN s |-> s[q[i]]] :
        q \in {p \in Permutations(DOMAIN s) :
                 \A i, j \in DOMAIN s : (i < j /\ s[p[i]].k = s[p[j]].k) => p[i] < p[j]}}

\* the member mb with the keys of its object, if it is one, in another order
ReorderedInside(mb) ==
    IF mb.v.t = "obj" THEN {[k |-> mb.k, v |-> JObj(o)] : o \in Reordered(mb.v.o)}
    ELSE {mb}

\* the texts that differ from data only in the order of the keys, at both
\* levels, and in whitespace
Rearranged(data) ==
    {[ws |-> w, members |-> u] :
        w \in BOOLEAN,
        u \in UNION {{v \in [DOMAIN t -> UNION {ReorderedInside(t[i]) : i \in DOMAIN t}] :
                        \A i \in DOMAIN t : v[i] \in ReorderedInside(t[i])} :
                     t \in Reordered(data.members)}}

\* --------------------------------------------------- the token comparison
TokenLen == 3
Bytes == {0, 1}
Tokens == UNION {[1..n -> Bytes] : n \in 1..TokenLen}

\* the bytes two strings of the same length share at their start
RECURSIVE CommonPrefix(_, _)
CommonPrefix(a, b) ==
    IF a = <<>> \/ b = <<>> \/ Head(a) # Head(b) THEN 0
    ELSE 1 + CommonPrefix(Tail(a), Tail(b))

\* actualAuth != headerAuthToken on Go strings: the lengths are compared,
\* then the bytes up to the first that differs. steps is the number of bytes
\* the comparison has looked at: what its duration depends on.
Compare(actualAuth, headerAuthToken) ==
    IF Len(actualAuth) # Len(headerAuthToken) THEN [differ |-> TRUE, steps |-> 0]
    ELSE IF actualAuth = headerAuthToken THEN [differ |-> FALSE, steps |-> Len(actualAuth)]
    ELSE [differ |-> TRUE, steps |-> CommonPrefix(actualAuth, headerAuthToken) + 1]

\* httphelper.CheckAuth / api checkAuth, for a uid that is registered
CheckAuth(actualAuth, headerAuthToken) ==
    LET c == Compare(actualAuth, headerAuthToken)
    IN  [done |-> TRUE, err |-> IF c.differ THEN "invalid auth token" ELSE "",
         steps |-> c.steps]

NoCheck == [done |-> FALSE, err |-> "", steps |-> 0]
NoAuth == [stored |-> <<>>, in1 |-> <<>>, in2 |-> <<>>, res1 |-> NoCheck, res2 |-> NoCheck]

\* the goroutines of main after the endpoints are set up, before any signal
Running ==
    [signal |-> FALSE, server |-> "up", jobs |-> "open", chainer |-> "run",
     elapsed |-> "open", timeTrack |-> "run", main |-> "wait"]

\* the main with the WaitGroup before it has started a goroutine
NoV1 ==
    [pc |-> "off", counter |-> 0, signal |-> FALSE, shutdown |-> "off",
     signer |-> "off", server |-> "off", msgsToSign |-> 0, saved |-> FALSE,
     panic |-> FALSE]

\* nothing but the request handlers runs
Started == auth = NoAuth /\ proc = Running /\ v1 = NoV1

\* ------------------------------------------------------------------- Init
Init ==
    /\ design \in {"lock", "chan"}
    /\ identity \in [Registered -> {[signature |-> s, pending |-> NoSig] : s \in {EmptySig, ZeroSig}}]
    /\ tx = [u \in Registered |-> 0]
    /\ chainingJobs = <<>>
    /\ chainer = 0
    /\ req = [r \in Reqs |-> NewReq]
    /\ built = <<>>
    /\ accepted = <<>>
    /\ committed = <<>>
    /\ response = NewResp
    /\ cancelled = [r \in Reqs |-> ""]
    /\ store = [u \in Registered |-> NoIdentity]
    /\ result = NoResult
    /\ boot = NoBoot
    /\ doc = NoDoc
    /\ Started

\* ---------------------------------------------------------------- actions
\* ChainingService.HandleRequest up to the call of SendChainedUpp (lock), the
\* handler up to the send on chainingJobs (chan): the request is validated.
\* Requests are numbered in the order of their arrival. An input the handler
\* does not look at after an early return is not varied.
HandleRequest(r) ==
    /\ req[r].pc = "new"
    /\ (IF r = 1 THEN TRUE ELSE req[r - 1].pc # "new")
    /\ \E u \in UidParams :
       \E tokenOk \in (IF u \in Registered THEN BOOLEAN ELSE {FALSE}) :
       \E v \in Validated(design, "chained", u, tokenOk, "") :
          IF v.resp = NoResponse
          THEN /\ req' = [req EXCEPT ![r] = [NewReq EXCEPT !.pc = "validated", !.uid = u,
                                                           !.route = "chained",
                                                           !.hashValid = v.hashValid]]
               /\ UNCHANGED response
          ELSE /\ req' = [req EXCEPT ![r] = [NewReq EXCEPT !.pc = "done"]]
               /\ response' = [Rejected("chained", u, tokenOk, "", v) EXCEPT !.to = r]
    /\ UNCHANGED <<design, identity, tx, chainingJobs, chainer, built, accepted, committed>>
    /\ UNCHANGED sideVars

\* Signer.Sign: the signed UPP of the operation and its one dispatch; the
\* answer is what SendUPP returns. signOk = FALSE is a failing key lookup or
\* signature.
Sign(r, uid, op, signOk, out) ==
    IF signOk
    THEN [NewResp EXCEPT !.to = r, !.route = "update", !.uid = uid, !.tokenOk = TRUE, !.op = op,
                         !.upp = getSignedUPP(uid, op, SigOf(r)),
                         !.disp = Classify(out), !.sends = 1,
                         !.code = SendUPP(out),
                         !.body = SendUPPResponse(r, getSignedUPP(uid, op, SigOf(r)), out).body]
    ELSE [NewResp EXCEPT !.to = r, !.route = "update", !.uid = uid, !.tokenOk = TRUE, !.op = op,
                         !.err = "sign",
                         !.code = ErrorResponse(StatusInternalServerError, "").code,
                         !.body = ErrorResponse(StatusInternalServerError, "").body]

SigningService_HandleRequest_waitsForChain(r) ==
    /\ req[r].pc = "new"
    /\ (IF r = 1 THEN TRUE ELSE req[r - 1].pc # "new")
    /\ \A u \in Registered : tx[u] = 0
    /\ chainingJobs = <<>>
    /\ \E u \in Registered, o \in OpParams \ {"bogus"}, out \in Outcomes :
          response' = [Sign(r, u, o, TRUE, out) EXCEPT !.hashValid = TRUE,
                                                      !.held = Holder(tx, u)]
    /\ req' = [req EXCEPT ![r] = [NewReq EXCEPT !.pc = "done"]]
    /\ UNCHANGED <<design, identity, tx, chainingJobs, chainer, built, accepted, committed>>
    /\ UNCHANGED sideVars

SigningService_HandleRequest_storesTip(r) ==
    /\ req[r].pc = "new"
    /\ (IF r = 1 THEN TRUE ELSE req[r - 1].pc # "new")
    /\ \E u \in Registered, o \in OpParams \ {"bogus"}, out \in Outcomes :
          /\ response' = [Sign(r, u, o, TRUE, out) EXCEPT !.hashValid = TRUE,
                                                          !.held = Holder(tx, u)]
          /\ identity' = [identity EXCEPT ![u].signature = SigOf(r)]
    /\ req' = [req EXCEPT ![r] = [NewReq EXCEPT !.pc = "done"]]
    /\ UNCHANGED <<design, tx, chainingJobs, chainer, built, accepted, committed>>
    /\ UNCHANGED sideVars

\* SigningService.HandleRequest (the update route): validation, Sign and the
\* response, without any wait on other requests.
SigningService_HandleRequest(r) ==
    /\ req[r].pc = "new"
    /\ (IF r = 1 THEN TRUE ELSE req[r - 1].pc # "new")
    /\ \E u \in UidParams :
       \E tokenOk \in (IF u \in Registered THEN BOOLEAN ELSE {FALSE}) :
       \E o \in (IF tokenOk THEN OpParams ELSE {"bogus"}) :
       \E v \in Validated(design, "update", u, tokenOk, o) :
       \E signOk \in (IF v.resp = NoResponse THEN BOOLEAN ELSE {FALSE}) :
       \E out \in (IF signOk THEN Outcomes ELSE {NoOutcome}) :
          response' = IF v.resp = NoResponse
                      THEN [Sign(r, u, o, signOk, out) EXCEPT !.hashValid = v.hashValid,
                                                              !.held = Holder(tx, u)]
                      ELSE [Rejected("update", u, tokenOk, o, v) EXCEPT !.to = r]
    /\ req' = [req EXCEPT ![r] = [NewReq EXCEPT !.pc = "done"]]
    /\ UNCHANGED <<design, identity, tx, chainingJobs, chainer, built, accepted, committed>>
    /\ UNCHANGED sideVars

StartTransaction_noWait(r) ==
    /\ design = "lock"
    /\ req[r].pc = "validated" /\ req[r].route = "chained"
    /\ cancelled[r] = ""
    /\ tx' = [tx EXCEPT ![req[r].uid] = r]
    /\ req' = [req EXCEPT ![r].pc = "locked"]
    /\ UNCHANGED <<design, identity, chainingJobs, chainer, built, accepted, committed, response>>
    /\ UNCHANGED sideVars

\* lock build: SendChainedUpp opens the uid's transaction (SELECT ... FOR
\* UPDATE, or the uid's mutex); it waits while another request holds it, and
\* not for a request whose context is cancelled.
StartTransaction(r) ==
    /\ design = "lock"
    /\ req[r].pc = "validated" /\ req[r].route = "chained"
    /\ cancelled[r] = ""
    /\ tx[req[r].uid] = 0
    /\ tx' = [tx EXCEPT ![req[r].uid] = r]
    /\ req' = [req EXCEPT ![r].pc = "locked"]
    /\ UNCHANGED <<design, identity, chainingJobs, chainer, built, accepted, committed, response>>
    /\ UNCHANGED sideVars

\* chan build: the handler sends the request on chainingJobs; the send
\* blocks while the buffer is full.
Enqueue(r) ==
    /\ design = "chan"
    /\ req[r].pc = "validated" /\ req[r].route = "chained"
    /\ Len(chainingJobs) < RequestBufSize
    /\ chainingJobs' = Append(chainingJobs, r)
    /\ req' = [req EXCEPT ![r].pc = "queued"]
    /\ UNCHANGED <<design, identity, tx, chainer, built, accepted, committed, response>>
    /\ UNCHANGED sideVars

\* chan build: the one chainer goroutine takes the next job when it has
\* finished the one before, and starts the uid's transaction.
ChainerStart(r) ==
    /\ design = "chan"
    /\ chainer = 0
    /\ chainingJobs # <<>> /\ Head(chainingJobs) = r
    /\ chainingJobs' = Tail(chainingJobs)
    /\ chainer' = r
    /\ tx' = [tx EXCEPT ![req[r].uid] = r]
    /\ req' = [req EXCEPT ![r].pc = "locked"]
    /\ UNCHANGED <<design, identity, built, accepted, committed, response>>
    /\ UNCHANGED sideVars

\* Inside the transaction: read the tip, build and sign the chained UPP,
\* stage its signature. The chan build reads through GetSignature, the lock
\* build hands the stored signature of the fetched identity to GetChainedUPP.
\* signOk = FALSE is a failing key lookup, decryption or signature.
BuildChained(r) ==
    /\ req[r].pc = "locked"
    /\ \E signOk \in BOOLEAN :
        LET u == req[r].uid
            stored == identity[u].signature
            rd == IF design = "chan" THEN GetSignature(identity, u)
                  ELSE [err |-> FALSE, sig |-> stored]
        IN  IF rd.err \/ ~signOk
            THEN /\ req' = [req EXCEPT ![r].pc = "failed", ![r].read = stored,
                                       ![r].err = IF rd.err THEN "siglen" ELSE "sign",
                                       ![r].code = StatusInternalServerError]
                 /\ UNCHANGED <<identity, built>>
            ELSE /\ req' = [req EXCEPT ![r].pc = "signed", ![r].read = stored,
                                       ![r].upp = GetChainedUPP(u, rd.sig, SigOf(r))]
                 /\ identity' = SetSignature(identity, u, SigOf(r))
                 /\ built' = Append(built, r)
    /\ UNCHANGED <<design, tx, chainingJobs, chainer, accepted, committed, response>>
    /\ UNCHANGED sideVars

Dispatch_resendOnTimeout(r) ==
    /\ req[r].pc = "signed"
    /\ req[r].sends < 2
    /\ \E out \in Outcomes :
        /\ req' = [req EXCEPT ![r].pc = IF out.err = "timeout" THEN "signed" ELSE "sent",
                              ![r].disp = Classify(out),
                              ![r].sends = @ + 1,
                              ![r].code = SendUPP(out),
                              ![r].body = SendUPPResponse(r, req[r].upp, out).body]
        /\ accepted' = IF Classify(out) = "SUCCESS"
                       THEN Append(accepted, r) ELSE accepted
    /\ UNCHANGED <<design, identity, tx, chainingJobs, chainer, built, committed, response>>
    /\ UNCHANGED sideVars

\* Inside the transaction: Signer.SendUPP, the one dispatch of the chained
\* UPP to the backend.
Dispatch(r) ==
    /\ req[r].pc = "signed"
    /\ \E out \in Outcomes :
        /\ req' = [req EXCEPT ![r].pc = "sent",
                              ![r].disp = Classify(out),
                              ![r].sends = @ + 1,
                              ![r].code = SendUPP(out),
                              ![r].body = SendUPPResponse(r, req[r].upp, out).body]
        /\ accepted' = IF Classify(out) = "SUCCESS"
                       THEN Append(accepted, r) ELSE accepted
    /\ UNCHANGED <<design, identity, tx, chainingJobs, chainer, built, committed, response>>
    /\ UNCHANGED sideVars

\* The response of a chained request when its critical section ends. An
\* internal failure is the error SendChainedUpp returns, which the lock
\* build's handler writes with h.Error; the chan build's chainer answers with
\* ErrorResponse. Everything else is the response of SendUPP.
ChainedResponse(d, rq, err) ==
    LET resp == IF err = "" THEN [code |-> rq.code, body |-> rq.body]
                ELSE IF d = "lock" THEN Error(err, StatusInternalServerError)
                ELSE ErrorResponse(StatusInternalServerError, "")
    IN  [NewResp EXCEPT !.route = "chained", !.uid = rq.uid, !.tokenOk = TRUE,
                        !.hashValid = rq.hashValid, !.disp = rq.disp,
                        !.sends = rq.sends, !.err = err,
                        !.code = resp.code, !.body = resp.body]

Receiver_sharedChannel(r) ==
    IF \E q \in Reqs \ {r} : req[q].pc \in {"validated", "queued"}
    THEN CHOOSE q \in Reqs \ {r} : req[q].pc \in {"validated", "queued"}
    ELSE r

\* The request whose caller gets the response to request r: SendChainedUpp
\* returns it to the handler that called it, the chainer sends it on the
\* response channel the handler made for the request.
Receiver(r) == r

EndTransaction_keepsLockOnCommitError(r) ==
    /\ req[r].pc \in {"sent", "failed"}
    /\ LET u == req[r].uid
           success == req[r].pc = "sent" /\ HttpSuccess(req[r].code)
       IN  \E commitOk \in (IF success /\ design = "lock" /\ cancelled[r] # ""
                            THEN {FALSE} ELSE BOOLEAN) :
            LET err == IF success /\ ~commitOk THEN "commit" ELSE req[r].err
            IN  /\ success \/ commitOk
                /\ identity' = CtxEndTransaction(identity, u, success /\ commitOk)
                /\ committed' = IF success /\ commitOk THEN Append(committed, r) ELSE committed
                /\ response' = IF cancelled[r] # "" THEN response
                               ELSE [ChainedResponse(design, req[r], err) EXCEPT !.to = Receiver(r)]
                /\ req' = [req EXCEPT ![r].pc = "done", ![r].err = err,
                                      ![r].code = 0, ![r].body = NoBody]
                /\ tx' = IF success /\ ~commitOk THEN tx ELSE [tx EXCEPT ![u] = 0]
    /\ chainer' = IF design = "chan" THEN 0 ELSE chainer
    /\ UNCHANGED <<design, chainingJobs, built, accepted>>
    /\ UNCHANGED sideVars

\* The end of the critical section: commit the staged tip when the response
\* is a success, drop it otherwise, release the uid and answer. commitOk =
\* FALSE is a commit the store refuses (the error of EndTransaction, or a
\* transaction whose context was cancelled meanwhile): nothing is persisted
\* and the caller gets 500. The lock build's transaction runs under the
\* context of the request and does not commit once that is cancelled; the
\* chainer of the chan build has no context of the request. A caller that
\* has cancelled gets no response.
EndTransaction(r) ==
    /\ req[r].pc \in {"sent", "failed"}
    /\ LET u == req[r].uid
           success == req[r].pc = "sent" /\ HttpSuccess(req[r].code)
       IN  \E commitOk \in (IF success /\ design = "lock" /\ cancelled[r] # ""
                            THEN {FALSE} ELSE BOOLEAN) :
            LET err == IF success /\ ~commitOk THEN "commit" ELSE req[r].err
            IN  /\ success \/ commitOk
                /\ identity' = CtxEndTransaction(identity, u, success /\ commitOk)
                /\ committed' = IF success /\ commitOk THEN Append(committed, r) ELSE committed
                /\ response' = IF cancelled[r] # "" THEN response
                               ELSE [ChainedResponse(design, req[r], err) EXCEPT !.to = Receiver(r)]
                /\ req' = [req EXCEPT ![r].pc = "done", ![r].err = err,
                                      ![r].code = 0, ![r].body = NoBody]
                /\ tx' = [tx EXCEPT ![u] = 0]
    /\ chainer' = IF design = "chan" THEN 0 ELSE chainer
    /\ UNCHANGED <<design, chainingJobs, built, accepted>>
    /\ UNCHANGED sideVars

Next ==
    \E r \in Reqs :
        \/ HandleRequest(r)
        \/ StartTransaction(r)
        \/ Enqueue(r)
        \/ ChainerStart(r)
        \/ BuildChained(r)
        \/ SigningService_HandleRequest(r)
        \/ Dispatch(r)
        \/ EndTransaction(r)

Spec == Init /\ [][Next]_vars

\* the state of the request handlers
handlerVars ==
    <<design, identity, tx, chainingJobs, chainer, req, built, accepted, committed, response,
      cancelled>>

\* no request has arrived
Idle ==
    /\ tx = [u \in Registered |-> 0]
    /\ chainingJobs = <<>>
    /\ chainer = 0
    /\ req = [r \in Reqs |-> NewReq]
    /\ built = <<>>
    /\ accepted = <<>>
    /\ committed = <<>>
    /\ response = NewResp
    /\ cancelled = [r \in Reqs |-> ""]

\* ------------------------------------------- the identity storage, alone
\* The calls of ExtendedProtocol on the identity storage, one at a time. The
\* signatures the storage holds at the start are of any of the lengths of
\* Signatures: what an earlier run, or anything else, left there.
InitStore ==
    /\ design = "lock"
    /\ identity \in [Registered -> {[signature |-> s, pending |-> NoSig] : s \in Signatures}]
    /\ Idle
    /\ store = [u \in Registered |-> NoIdentity]
    /\ result = NoResult
    /\ boot = NoBoot
    /\ doc = NoDoc
    /\ Started

\* handlers.ExtendedProtocol.StoreIdentity
StoreIdentity(id, ctxOk) ==
    LET err == StoreIdentityCheck(id)
        ctx == CtxStoreIdentity(store, id, ctxOk)
    IN  /\ result' = [NoResult EXCEPT !.op = "StoreIdentity", !.id = id,
                                      !.fresh = (store[id.Uid] = NoIdentity),
                                      !.ctxOk = ctxOk,
                                      !.err = IF err # "" THEN err ELSE ctx.err]
        /\ store' = IF err # "" THEN store ELSE ctx.store
        /\ UNCHANGED <<runVars, handlerVars, boot, doc>>

\* ExtendedProtocol.GetAuthToken of a uid
CallGetAuthToken(uid, found) ==
    LET got == GetAuthToken(CtxGetAuthToken(store, uid, found))
    IN  /\ result' = [NoResult EXCEPT !.op = "GetAuthToken", !.id.Uid = uid,
                                      !.fresh = (store[uid] = NoIdentity),
                                      !.err = got.err, !.token = got.token]
        /\ UNCHANGED <<runVars, store, handlerVars, boot, doc>>

\* main.ExtendedProtocol.SetAuthToken: the token of an identity the context
\* manager holds
SetAuthToken(uid, authToken) ==
    LET err == IF authToken = "" THEN "empty auth token"
               ELSE IF store[uid] = NoIdentity THEN "not found"
               ELSE ""
    IN  /\ result' = [NoResult EXCEPT !.op = "SetAuthToken", !.id.Uid = uid,
                                      !.id.AuthToken = authToken,
                                      !.fresh = (store[uid] = NoIdentity),
                                      !.err = err]
        /\ store' = IF err = "" THEN [store EXCEPT ![uid].AuthToken = authToken] ELSE store
        /\ UNCHANGED <<runVars, handlerVars, boot, doc>>

\* main.ExtendedProtocol.GetSignature of a uid
ReadSignature(uid) ==
    LET rd == GetSignature(identity, uid)
    IN  /\ result' = [NoResult EXCEPT !.op = "GetSignature", !.id.Uid = uid,
                                      !.id.Signature = identity[uid].signature,
                                      !.err = IF rd.err THEN "invalid signature length" ELSE ""]
        /\ UNCHANGED <<runVars, store, handlerVars, boot, doc>>

NextStore ==
    \/ \E id \in Identities, ctxOk \in BOOLEAN : StoreIdentity(id, ctxOk)
    \/ \E uid \in Registered, found \in BOOLEAN : CallGetAuthToken(uid, found)
    \/ \E uid \in Registered, authToken \in AuthTokens : SetAuthToken(uid, authToken)
    \/ \E uid \in Registered : ReadSignature(uid)

\* ------------------------------------------------- the canonical JSON
\* GetSortedCompactJSON on two texts that differ only in the order of the
\* keys and in whitespace.
InitJSON ==
    /\ design = "lock"
    /\ identity = [u \in Registered |-> [signature |-> EmptySig, pending |-> NoSig]]
    /\ Idle
    /\ store = [u \in Registered |-> NoIdentity]
    /\ result = NoResult
    /\ boot = NoBoot
    /\ \E data \in JTexts : \E other \in Rearranged(data) :
          doc = [NoDoc EXCEPT !.in1 = data, !.in2 = other]
    /\ Started

CanonicaliseFirst ==
    /\ 1 \notin doc.done
    /\ doc' = [doc EXCEPT !.out1 = GetSortedCompactJSON(doc.in1), !.done = @ \cup {1}]
    /\ UNCHANGED <<runVars, handlerVars, store, result, boot>>

CanonicaliseSecond ==
    /\ 2 \notin doc.done
    /\ doc' = [doc EXCEPT !.out2 = GetSortedCompactJSON(doc.in2), !.done = @ \cup {2}]
    /\ UNCHANGED <<runVars, handlerVars, store, result, boot>>

NextJSON ==
    \/ CanonicaliseFirst
    \/ CanonicaliseSecond

SpecJSON == InitJSON /\ [][NextJSON]_vars

\* --------------------------------------------- hash and data requests
\* The client sends the hash of the canonical form of a JSON text on the hash
\* route, and a text that differs from it in key order and whitespace on the
\* data route.
SignHash ==
    /\ doc.pay1 = NoSum
    /\ \E ct \in {BinType, TextType} :
          doc' = [doc EXCEPT !.pay1 =
                     Payload(HashOfHashRequest(ct, Sum256(GetSortedCompactJSON(doc.in1))).hash)]
    /\ UNCHANGED <<runVars, handlerVars, store, result, boot>>

SignData ==
    /\ doc.pay2 = NoSum
    /\ doc' = [doc EXCEPT !.pay2 = Payload(HashOfDataRequest(JSONType, doc.in2).hash)]
    /\ UNCHANGED <<runVars, handlerVars, store, result, boot>>

NextHash ==
    \/ SignHash
    \/ SignData

SpecHash == InitJSON /\ [][NextHash]_vars

\* ------------------------------------------------- the token comparison
\* Two requests for one uid; the tokens they supply are compared with the
\* token of the uid.
InitAuth ==
    /\ design = "lock"
    /\ identity = [u \in Registered |-> [signature |-> EmptySig, pending |-> NoSig]]
    /\ Idle
    /\ store = [u \in Registered |-> NoIdentity]
    /\ result = NoResult
    /\ boot = NoBoot
    /\ doc = NoDoc
    /\ proc = Running /\ v1 = NoV1
    /\ \E t \in [1..TokenLen -> Bytes] : \E a, b \in Tokens :
          auth = [NoAuth EXCEPT !.stored = t, !.in1 = a, !.in2 = b]

CheckFirst ==
    /\ ~auth.res1.done
    /\ auth' = [auth EXCEPT !.res1 = CheckAuth(auth.stored, auth.in1)]
    /\ UNCHANGED <<handlerVars, store, result, boot, doc, proc, v1>>

CheckSecond ==
    /\ ~auth.res2.done
    /\ auth' = [auth EXCEPT !.res2 = CheckAuth(auth.stored, auth.in2)]
    /\ UNCHANGED <<handlerVars, store, result, boot, doc, proc, v1>>

NextAuth ==
    \/ CheckFirst
    \/ CheckSecond

SpecAuth == InitAuth /\ [][NextAuth]_vars

\* ------------------------------------------- requests that are cancelled
\* The caller of a chained request closes the connection while the request
\* is under way: the context of the request is cancelled.
Cancel(r) ==
    /\ req[r].pc \in {"validated", "queued", "locked", "signed", "sent", "failed"}
    /\ cancelled[r] = ""
    /\ cancelled' = [cancelled EXCEPT ![r] = req[r].pc]
    /\ UNCHANGED <<design, identity, tx, chainingJobs, chainer, req, built, accepted, committed,
                   response, store, result, boot, doc, runVars>>

\* lock build: SendChainedUpp returns with the error of the cancelled
\* context before it has opened the transaction; nobody gets the response.
Abort(r) ==
    /\ design = "lock"
    /\ req[r].pc = "validated" /\ cancelled[r] # ""
    /\ req' = [req EXCEPT ![r].pc = "done", ![r].err = "cancelled"]
    /\ UNCHANGED <<design, identity, tx, chainingJobs, chainer, built, accepted, committed,
                   response>>
    /\ UNCHANGED sideVars

NextCancel ==
    \/ Next
    \/ \E r \in Reqs : Cancel(r)
    \/ \E r \in Reqs : Abort(r)

SpecCancel == Init /\ [][NextCancel]_vars

\* A handler that can take a step takes it: the goroutine of a request runs
\* on, the backend call returns or times out, the chainer goroutine runs on.
\* Nothing makes a request arrive or a caller cancel.
Progress ==
    \A r \in Reqs :
        /\ WF_vars(StartTransaction(r)) /\ WF_vars(Abort(r))
        /\ WF_vars(Enqueue(r)) /\ WF_vars(ChainerStart(r))
        /\ WF_vars(BuildChained(r)) /\ WF_vars(Dispatch(r)) /\ WF_vars(EndTransaction(r))

\* one uid that has never signed and one with a tip
InitFair ==
    /\ Init
    /\ identity["u1"].signature = EmptySig /\ identity["u2"].signature = ZeroSig

SpecCancelFair == InitFair /\ [][NextCancel]_vars /\ Progress

SpecStore == InitStore /\ [][NextStore]_vars

\* ------------------------------------------- the shutdown (chainer build)
\* main with the chainer goroutine, from the start of the server on: the
\* requests, the signal and what the goroutines of main do after it.
InitShutdown ==
    /\ design = "chan"
    /\ identity = [u \in Registered |->
                      [signature |-> IF u = "u1" THEN EmptySig ELSE ZeroSig, pending |-> NoSig]]
    /\ Idle
    /\ store = [u \in Registered |-> NoIdentity]
    /\ result = NoResult
    /\ boot = NoBoot
    /\ doc = NoDoc
    /\ Started

\* shutdown: SIGINT or SIGTERM arrives, the context is cancelled
Signal ==
    /\ ~proc.signal
    /\ proc' = [proc EXCEPT !.signal = TRUE]
    /\ UNCHANGED <<handlerVars, store, result, boot, doc, auth, v1>>

\* The goroutine of the server: Serve returns once the context is cancelled
\* (server.Shutdown makes ListenAndServe return at once, and with the
\* cancelled context does not wait for the handlers that still run), and the
\* deferred close(chainingJobs) runs.
ServeReturn ==
    /\ proc.signal /\ proc.server = "up"
    /\ proc' = [proc EXCEPT !.server = "down", !.jobs = "closed"]
    /\ UNCHANGED <<handlerVars, store, result, boot, doc, auth, v1>>

\* the send of a handler on the jobs channel while the channel is open
SendJob(r) == proc.jobs = "open" /\ Enqueue(r)

\* The send of a handler on the jobs channel after close(chainingJobs), also
\* of a handler that was blocked in the send: the send panics. net/http
\* recovers the panic of a handler and drops the connection: the caller gets
\* no response.
SendOnClosed(r) ==
    /\ design = "chan" /\ proc.jobs = "closed"
    /\ req[r].pc = "validated" /\ req[r].route = "chained"
    /\ req' = [req EXCEPT ![r].pc = "panicked", ![r].err = "send on closed channel"]
    /\ UNCHANGED <<design, identity, tx, chainingJobs, chainer, built, accepted, committed,
                   response>>
    /\ UNCHANGED sideVars

\* The chainer goroutine returns when the jobs channel is closed and empty.
\* Whether it closes elapsedTime is not known: both are tried.
ChainerReturn ==
    /\ proc.chainer = "run" /\ proc.jobs = "closed"
    /\ chainingJobs = <<>> /\ chainer = 0
    /\ \E e \in {"open", "closed"} : proc' = [proc EXCEPT !.chainer = "done", !.elapsed = e]
    /\ UNCHANGED <<handlerVars, store, result, boot, doc, auth, v1>>

\* timeTrack: the range over elapsed ends when the channel is closed
TimeTrackReturn ==
    /\ proc.timeTrack = "run" /\ proc.elapsed = "closed"
    /\ proc' = [proc EXCEPT !.timeTrack = "done"]
    /\ UNCHANGED <<handlerVars, store, result, boot, doc, auth, v1>>

\* main: g.Wait returns when the chainer and the server goroutine have
\* returned, then main waits for timeTrack, deinitialises the protocol and
\* returns.
MainReturn ==
    /\ proc.main = "wait"
    /\ proc.server = "down" /\ proc.chainer = "done" /\ proc.timeTrack = "done"
    /\ proc' = [proc EXCEPT !.main = "done"]
    /\ UNCHANGED <<handlerVars, store, result, boot, doc, auth, v1>>

NextShutdown ==
    \/ \E r \in Reqs : proc.server = "up" /\ HandleRequest(r)
    \/ \E r \in Reqs : proc.server = "up" /\ SigningService_HandleRequest(r)
    \/ \E r \in Reqs : SendJob(r)
    \/ \E r \in Reqs : SendOnClosed(r)
    \/ \E r \in Reqs : ChainerStart(r)
    \/ \E r \in Reqs : BuildChained(r)
    \/ \E r \in Reqs : Dispatch(r)
    \/ \E r \in Reqs : EndTransaction(r)
    \/ Signal
    \/ ServeReturn
    \/ ChainerReturn
    \/ TimeTrackReturn
    \/ MainReturn

\* The goroutines run on: a handler that can send does, the chainer works on
\* the jobs it gets (a backend call returns or times out), and Serve, the
\* chainer, timeTrack and main return when they can. Nothing makes a request
\* or a signal arrive.
SpecShutdown ==
    /\ InitShutdown
    /\ [][NextShutdown]_vars
    /\ \A r \in Reqs :
          /\ WF_vars(SendJob(r)) /\ WF_vars(SendOnClosed(r)) /\ WF_vars(ChainerStart(r))
          /\ WF_vars(BuildChained(r)) /\ WF_vars(Dispatch(r)) /\ WF_vars(EndTransaction(r))
    /\ WF_vars(ServeReturn) /\ WF_vars(ChainerReturn)
    /\ WF_vars(TimeTrackReturn) /\ WF_vars(MainReturn)

\* ------------------------------------------- the main with the WaitGroup
\* main from the creation of the WaitGroup on, the shutdown goroutine, the
\* signer goroutine and the goroutine of the HTTP server. Nothing runs after
\* os.Exit or a panic.
InitV1 ==
    /\ design = "lock"
    /\ identity = [u \in Registered |-> [signature |-> EmptySig, pending |-> NoSig]]
    /\ Idle
    /\ store = [u \in Registered |-> NoIdentity]
    /\ result = NoResult
    /\ boot = NoBoot
    /\ doc = NoDoc
    /\ auth = NoAuth /\ proc = Running
    /\ v1 = [NoV1 EXCEPT !.pc = "start"]

\* the messages in msgsToSign that are tried (the channel holds up to 100)
MaxMsgs == 2

V1Alive == v1.shutdown # "exited" /\ ~v1.panic

\* wg.Done: the counter goes down by one; below zero it panics
WgDone(v) == [v EXCEPT !.counter = @ - 1, !.panic = (v.counter - 1 < 0)]

\* main, one statement at a time: go shutdown, go signer, wg.Add(1), Serve
\* (which starts the goroutine of the server), wg.Add(1), select {}
MainStep ==
    /\ V1Alive
    /\ \/ v1.pc = "start" /\ v1' = [v1 EXCEPT !.pc = "goShutdown", !.shutdown = "wait"]
       \/ v1.pc = "goShutdown" /\ v1' = [v1 EXCEPT !.pc = "goSigner", !.signer = "run"]
       \/ v1.pc = "goSigner" /\ v1' = [v1 EXCEPT !.pc = "added", !.counter = @ + 1]
       \/ v1.pc = "added" /\ v1' = [v1 EXCEPT !.pc = "serve", !.server = "run"]
       \/ v1.pc = "serve" /\ v1' = [v1 EXCEPT !.pc = "select", !.counter = @ + 1]
    /\ UNCHANGED <<handlerVars, store, result, boot, doc, auth, proc>>

\* shutdown: the signal arrives and cancel() is called
SignalV1 ==
    /\ V1Alive /\ v1.shutdown = "wait"
    /\ v1' = [v1 EXCEPT !.shutdown = "cancelled", !.signal = TRUE]
    /\ UNCHANGED <<handlerVars, store, result, boot, doc, auth, proc>>

\* shutdown: wg.Wait returns when the counter is zero; then SaveContext and
\* os.Exit
WaitAndSave ==
    /\ V1Alive
    /\ \/ /\ v1.shutdown = "cancelled" /\ v1.counter = 0
          /\ v1' = [v1 EXCEPT !.shutdown = "waited"]
       \/ /\ v1.shutdown = "waited"
          /\ v1' = [v1 EXCEPT !.shutdown = "exited", !.saved = TRUE]
    /\ UNCHANGED <<handlerVars, store, result, boot, doc, auth, proc>>

\* HTTPServer.sign: a handler of the running server sends a message on
\* msgsToSign; the signer takes one off while it runs
Message ==
    /\ V1Alive
    /\ \/ /\ v1.server \in {"run", "closing"} /\ v1.msgsToSign < MaxMsgs
          /\ v1' = [v1 EXCEPT !.msgsToSign = @ + 1]
       \/ /\ v1.signer = "run" /\ v1.msgsToSign > 0
          /\ v1' = [v1 EXCEPT !.msgsToSign = @ - 1]
    /\ UNCHANGED <<handlerVars, store, result, boot, doc, auth, proc>>

\* signer: the goroutine sees the cancelled context, then returns with
\* wg.Done()
SignerReturn ==
    /\ V1Alive /\ v1.signal
    /\ \/ v1.signer = "run" /\ v1' = [v1 EXCEPT !.signer = "stopping"]
       \/ v1.signer = "stopping" /\ v1' = [WgDone(v1) EXCEPT !.signer = "done"]
    /\ UNCHANGED <<handlerVars, store, result, boot, doc, auth, proc>>

\* HTTPServer.Serve: once the context is cancelled server.Shutdown is called;
\* ListenAndServe returns and the deferred wg.Done() runs
ServerReturn ==
    /\ V1Alive /\ v1.signal
    /\ \/ v1.server = "run" /\ v1' = [v1 EXCEPT !.server = "closing"]
       \/ v1.server = "closing" /\ v1' = [WgDone(v1) EXCEPT !.server = "done"]
    /\ UNCHANGED <<handlerVars, store, result, boot, doc, auth, proc>>

NextV1 ==
    \/ MainStep
    \/ SignalV1
    \/ WaitAndSave
    \/ Message
    \/ SignerReturn
    \/ ServerReturn

SpecV1 == InitV1 /\ [][NextV1]_vars

\* -------------------------------------------------------------- the startup
\* main up to the start of the server, for every configuration and every
\* content of the identity storage.
InitStartup ==
    /\ design = "chan"
    /\ identity = [u \in Registered |-> [signature |-> EmptySig, pending |-> NoSig]]
    /\ Idle
    /\ store \in [Registered -> {NoIdentity}]
                    \cup {[u \in Registered |-> IF u \in e THEN Existing(u, t) ELSE NoIdentity] :
                            e \in SUBSET Registered \ {{}}, t \in AuthTokens \ {""}}
    /\ \E c \in Configs :
          boot = [NoBoot EXCEPT !.pc = "start", !.conf = c,
                                !.existing = {u \in Registered : store[u] # NoIdentity}]
    /\ result = NoResult
    /\ doc = NoDoc
    /\ Started

\* main: conf.Load, log.Fatalf on its error
LoadConfig ==
    /\ boot.pc = "start"
    /\ \E fileOk \in BOOLEAN, mapsOk \in BOOLEAN, urlsOk \in BOOLEAN :
        LET err == Load(boot.conf, fileOk, mapsOk, urlsOk)
        IN  boot' = [boot EXCEPT !.pc = IF err # "" THEN "aborted" ELSE "loaded", !.err = err]
    /\ UNCHANGED <<runVars, handlerVars, store, result, doc>>

\* main: conf.GetCtxManager and NewExtendedProtocol, log.Fatal on an error
\* (protoOk = FALSE: NewExtendedProtocol fails)
NewProtocol ==
    /\ boot.pc = "loaded"
    /\ \E protoOk \in BOOLEAN :
        LET err == IF GetCtxManager(boot.conf) # "" THEN GetCtxManager(boot.conf)
                   ELSE IF ~protoOk THEN "protocol" ELSE ""
        IN  boot' = [boot EXCEPT !.pc = IF err # "" THEN "aborted" ELSE "keys", !.err = err]
    /\ UNCHANGED <<runVars, handlerVars, store, result, doc>>

\* initDeviceKeys for one configured uid: for a uid the storage does not
\* hold, the key, the registration and the store of the identity; for one it
\* holds, the validation of key pair and token (keysOk). Every failure is
\* fatal.
InitDeviceKey(uid) ==
    /\ boot.pc = "keys"
    /\ uid \in boot.conf.Devices \ boot.inited
    /\ \E code \in RegCodes, ctxOk \in BOOLEAN, keysOk \in BOOLEAN :
        LET key == deviceKey(boot.conf, uid)
            ctx == CtxStoreIdentity(store, NewIdentity(uid), ctxOk)
            fresh == store[uid] = NoIdentity
            registers == fresh /\ key # "none"
            err == IF ~fresh
                   THEN IF keysOk /\ store[uid].AuthToken = DeviceToken THEN "" ELSE "mismatch"
                   ELSE IF key = "none" THEN "no injected key"
                   ELSE IF ~registrationOk(code) THEN "registration"
                   ELSE ctx.err
        IN  /\ boot' = [boot EXCEPT !.pc = IF err # "" THEN "aborted" ELSE "keys",
                                    !.err = err,
                                    !.inited = @ \cup {uid},
                                    !.generated = IF fresh /\ key = "generated"
                                                  THEN @ \cup {uid} ELSE @,
                                    !.regs[uid] = IF registers THEN code ELSE 0]
            /\ store' = IF registers /\ registrationOk(code) THEN ctx.store ELSE store
    /\ UNCHANGED <<runVars, handlerVars, result, doc>>

Serve_beforeKeys ==
    /\ boot.pc = "keys"
    /\ boot' = [boot EXCEPT !.pc = "serving"]
    /\ UNCHANGED <<runVars, handlerVars, store, result, doc>>

\* main: the chainer, the endpoints and the server, once initDeviceKeys has
\* returned
Serve ==
    /\ boot.pc = "keys"
    /\ boot.inited = boot.conf.Devices
    /\ boot' = [boot EXCEPT !.pc = "serving"]
    /\ UNCHANGED <<runVars, handlerVars, store, result, doc>>

NextStartup ==
    \/ LoadConfig
    \/ NewProtocol
    \/ \E uid \in Registered : InitDeviceKey(uid)
    \/ Serve

SpecStartup == InitStartup /\ [][NextStartup]_vars

\* ------------------------------------------------------------ the claims
SeqOf(s, u) == SelectSeq(s, LAMBDA r : req[r].uid = u)
Elems(s) == {s[i] : i \in DOMAIN s}
DispatchFailed(r) == req[r].disp \in {"TIMEOUT", "UNAVAILABLE", "REJECTED"}
InSection(r) == req[r].pc \in {"locked", "signed", "sent", "failed"}

\* C1: for every uid, the accepted chained envelopes taken in their order of
\* acceptance are linked: the previous-signature of each one after the first
\* is the signature of the one accepted immediately before it.
C1_ChainMonotonic ==
    \A u \in Registered :
        LET a == SeqOf(accepted, u) IN
        \A i \in 2..Len(a) : req[a[i]].upp.prev = req[a[i - 1]].upp.sig

\* C2: after a dispatch that ended non-2xx or timed out, the persisted tip of
\* the uid is what the failed request read, and the next chained envelope of
\* the uid is built with the same previous-signature as the failed one.
C2_FailedDispatchKeepsTip ==
    \A u \in Registered :
        LET b == SeqOf(built, u) IN
        /\ Len(b) > 0 /\ DispatchFailed(b[Len(b)])
              => identity[u].signature = req[b[Len(b)]].read
        /\ \A i \in 2..Len(b) :
              DispatchFailed(b[i - 1]) => req[b[i]].upp.prev = req[b[i - 1]].upp.prev

\* a failed chained request is answered and a later one of the same uid has
\* built its envelope
C2_Witness ==
    \E u \in Registered :
        LET b == SeqOf(built, u) IN
        /\ Len(b) >= 2
        /\ DispatchFailed(b[1]) /\ req[b[1]].pc = "done"
        /\ req[b[2]].upp.prev = req[b[1]].upp.prev

\* C3: no two accepted chained envelopes of one uid carry the same
\* previous-signature.
C3_StrictChainNoDuplicates ==
    \A r1, r2 \in Elems(accepted) :
        r1 # r2 /\ req[r1].uid = req[r2].uid => req[r1].upp.prev # req[r2].upp.prev

\* C4: the persisted tip of a uid is the initial value (empty, or the 64 zero
\* bytes of the genesis) or the signature of a chained envelope of that uid
\* that the backend accepted.
C4_TipIsGenesisOrAccepted ==
    \A u \in Registered :
        identity[u].signature \in
            {EmptySig, ZeroSig}
            \cup {req[r].upp.sig : r \in {x \in Elems(accepted) : req[x].uid = u}}

\* the tip of a uid is an accepted signature while another envelope of the
\* same uid was refused by the backend
C4_Witness ==
    \E u \in Registered :
        /\ identity[u].signature.val # 0
        /\ \E r \in Reqs : req[r].uid = u /\ req[r].pc = "done" /\ DispatchFailed(r)

\* C5: a chained request that finds the stored signature of its uid empty
\* gets its envelope (the read of the tip does not fail), and the envelope
\* carries 64 zero bytes as its previous-signature.
C5_GenesisLinkIsZero ==
    \A r \in Reqs :
        req[r].route = "chained" /\ req[r].read = EmptySig
            => /\ req[r].err # "siglen"
               /\ req[r].upp # NoUPP => req[r].upp.prev = ZeroSig

\* C6: within one uid the signatures become the tip in the order of their
\* acceptance and none is skipped: the committed requests are the accepted
\* ones, but for the one whose critical section is still open.
C6_TipOrderFollowsAcceptance ==
    \A u \in Registered :
        LET a == SeqOf(accepted, u)
            c == SeqOf(committed, u)
        IN  /\ Len(c) <= Len(a)
            /\ \A i \in 1..Len(c) : c[i] = a[i]
            /\ tx[u] = 0 => Len(c) = Len(a)

\* C7: once the critical section of a uid is released, the signature of the
\* last envelope the backend accepted for the uid is the persisted tip.
C7_NoPublishedNotPersisted ==
    \A u \in Registered :
        LET a == SeqOf(accepted, u) IN
        tx[u] = 0 /\ Len(a) > 0 => identity[u].signature = req[a[Len(a)]].upp.sig

\* C8: a chained request waits only for chained requests of its own uid: when
\* no other request of its uid is queued or inside the critical section, its
\* next step (the send on the channel, the start of its transaction) is
\* possible.
C8_NoCrossUidWait ==
    \A r \in Reqs :
        /\ req[r].route = "chained"
        /\ req[r].pc \in {"validated", "queued"}
        /\ ~ \E r2 \in Reqs \ {r} :
                /\ req[r2].uid = req[r].uid
                /\ req[r2].pc = "queued" \/ InSection(r2)
        => IF design = "lock" THEN tx[req[r].uid] = 0
           ELSE IF req[r].pc = "validated" THEN Len(chainingJobs) < RequestBufSize
           ELSE chainer = 0 /\ Head(chainingJobs) = r

\* C11: a request on the update route that has arrived can be handled at
\* once, whatever transactions are open and whatever the chainer and its
\* channel hold: nothing of the chain serialization is in its way.
C11_UpdateBypassesChain ==
    \A r \in Reqs :
        req[r].pc = "new" /\ (IF r = 1 THEN TRUE ELSE req[r - 1].pc # "new")
            => ENABLED SigningService_HandleRequest(r)

\* an update request of a uid got the backend's success while a chained
\* request of the same uid is still inside its critical section
C11_Witness ==
    /\ response.route = "update" /\ response.disp = "SUCCESS"
    /\ response.held # 0
    /\ InSection(response.held) /\ req[response.held].uid = response.uid

\* C12: every request is dispatched at most once, whatever the outcome of the
\* dispatch: a request with an outcome has sent its envelope exactly once.
C12_AtMostOneDispatch ==
    /\ response.sends <= 1
    /\ \A r \in Reqs :
          /\ req[r].sends <= 1
          /\ req[r].disp # "none" => req[r].sends = 1

\* a chained request whose dispatch timed out is answered, and the answer of
\* a request whose dispatch failed is out
C12_Witness ==
    /\ \E r \in Reqs : req[r].pc = "done" /\ req[r].disp = "TIMEOUT" /\ req[r].sends = 1
    /\ response.disp \in {"TIMEOUT", "UNAVAILABLE"} /\ response.sends = 1

\* C13: a request of a registered uid whose token differs from the stored one
\* is answered 401 with the body "invalid auth token", whatever its operation
\* and its body are, and nothing is built or dispatched for it.
C13_BadTokenIs401 ==
    response.route # "" /\ response.uid \in Registered /\ ~response.tokenOk
        => /\ response.code = StatusUnauthorized
           /\ response.body.kind = "text" /\ response.body.text = "invalid auth token"
           /\ response.upp = NoUPP /\ response.sends = 0

\* C14: a request for a well-formed UUID that is no registered identity is
\* answered 404, on both routes.
C14_UnknownUidIs404 ==
    response.route # "" /\ response.uid \in UidParams \ (Registered \cup {"bad"})
        => response.code = StatusNotFound

C16_TimeoutIs504 ==
    /\ response.disp = "TIMEOUT" => response.code = StatusGatewayTimeout
    /\ \A r \in Reqs :
          req[r].pc = "sent" /\ req[r].disp = "TIMEOUT" => req[r].code = StatusGatewayTimeout

\* the caller of a chained request got the answer to a dispatch that timed out
C16_Witness ==
    /\ response.route = "chained" /\ response.disp = "TIMEOUT"
    /\ response.code = StatusGatewayTimeout

\* C17: a dispatch whose outcome is UNAVAILABLE (a 5xx of the backend, or a
\* connection error that is no timeout) is answered 502.
C17_UnavailableIs502 ==
    response.disp = "UNAVAILABLE" => response.code = 502

\* C18: when the backend answered 2xx or 4xx, the response has the backend's
\* status and its body is the receipt with the hash and the envelope of the
\* request and the backend's answer.
C18_BackendStatusProxied ==
    response.disp \in {"SUCCESS", "REJECTED"}
        => /\ response.body.kind = "receipt"
           /\ response.body.response.err = "none"
           /\ response.code = response.body.response.code
           /\ response.body.upp # NoUPP
           /\ response.body.hash = response.body.upp.sig.val

\* C19: the requestID of a receipt is the UUID of the first lenRequestID
\* bytes of the backend's payload when the backend's answer decodes and the
\* payload is that long, and "n/a" otherwise.
C19_RequestIDOrNA ==
    response.body.kind = "receipt"
        => response.body.requestID =
              IF /\ response.body.response.content.decodes
                 /\ response.body.response.content.plen >= lenRequestID
              THEN "uuid" ELSE "n/a"

\* C20: every 500 has the same body (the status text), whatever failed: the
\* identity store, the key, the signature, the commit.
C20_InternalErrorBodyGeneric ==
    response.code = StatusInternalServerError
        => response.body = ErrorResponse(StatusInternalServerError, "").body

\* C9: a request on the update route, answered with a success or a failure,
\* leaves the identity store (every persisted tip) as it was.
C9_UpdateLeavesTipsUnchanged ==
    [][\A r \in Reqs : SigningService_HandleRequest(r) => identity' = identity]_vars

\* the update route answered with the backend's success while a tip holds a
\* chained signature
C9_Witness ==
    /\ response.route = "update" /\ response.disp = "SUCCESS"
    /\ \E u \in Registered : identity[u].signature.val # 0

\* C10: every envelope of the update route is a signed one with the hint of
\* its operation (anchor: Binary 0x00, disable: Disable 0xFA, enable: Enable
\* 0xFB, delete: Delete 0xFC), every envelope of the chained route is a
\* chained one with the hint Binary.
C10_RouteVariantOpHint ==
    /\ response.upp # NoUPP =>
          /\ response.route = "update"
          /\ response.upp.version = "Signed"
          /\ response.upp.hint = CASE response.op = "anchor" -> "Binary"
                                   [] response.op = "disable" -> "Disable"
                                   [] response.op = "enable" -> "Enable"
                                   [] response.op = "delete" -> "Delete"
                                   [] OTHER -> "none"
    /\ \A r \in Reqs :
          req[r].upp # NoUPP =>
              /\ req[r].route = "chained"
              /\ req[r].upp.version = "Chained"
              /\ req[r].upp.hint = "Binary"

\* an anchor on the update route got a signed envelope while a chained
\* envelope exists
C10_Witness ==
    /\ response.op = "anchor" /\ response.upp.version = "Signed"
    /\ \E r \in Reqs : req[r].upp.version = "Chained"

\* ------------------------------------------ claims on the identity storage
\* an attribute of the identity that StoreIdentity requires is empty
EmptyAttribute(id) == id.AuthToken = "" \/ id.PrivateKey = "" \/ id.PublicKey = ""

\* C21: reading an identity's signature succeeds exactly when the stored
\* signature is empty or SignatureLength bytes long; any other length is
\* rejected.
C21_ReadableIffEmptyOr64 ==
    result.op = "GetSignature" =>
        (result.err = "" <=> result.id.Signature.len \in {0, SignatureLength})

\* C22: storing, for a uid the storage does not hold, an identity with an
\* empty signature (and a token and both keys) succeeds, and the uid is then
\* held with an empty chain tip.
C22_FirstStoreEmptySignature ==
    (/\ result.op = "StoreIdentity"
     /\ result.id.Signature = EmptySig
     /\ ~EmptyAttribute(result.id)
     /\ result.fresh /\ result.ctxOk)
    => (/\ result.err = ""
        /\ store[result.id.Uid] = result.id)

C24_StoredOnlyAfterRegistration ==
    \A u \in Registered \ boot.existing :
        /\ store[u] # NoIdentity =>
              (HttpSuccess(boot.regs[u]) \/ boot.regs[u] = 409)
        /\ (boot.regs[u] # 0 /\ ~HttpSuccess(boot.regs[u]) /\ boot.regs[u] # 409) =>
              (boot.pc = "aborted" /\ store[u] = NoIdentity)

\* one identity was stored after a 409, and the registration of another uid
\* was refused
C24_Witness ==
    \E u, v \in Registered \ boot.existing :
        /\ store[u] # NoIdentity /\ boot.regs[u] = 409
        /\ boot.regs[v] = 500 /\ store[v] = NoIdentity /\ boot.pc = "aborted"

\* the devices map is empty, or the secret does not decode to SecretLen bytes
BadConfig(c) == c.Devices = {} \/ ~c.Secret.decodes \/ c.Secret.len # SecretLen

\* C27: when the devices map is empty or the secret does not decode to
\* exactly 16 bytes, Config.Load fails and the startup aborts before any
\* identity is initialised and before the server is bound.
C27_BadConfigAborts ==
    BadConfig(boot.conf) =>
        /\ boot.pc \in {"off", "start", "aborted"}
        /\ boot.pc = "aborted" => boot.err # ""
        /\ boot.inited = {} /\ boot.generated = {}
        /\ \A u \in Registered : boot.regs[u] = 0
        /\ \A u \in Registered : store[u] # NoIdentity => u \in boot.existing

\* the startup has aborted on a secret that decodes to 15 bytes, with devices
\* configured
C27_Witness ==
    /\ boot.pc = "aborted" /\ boot.err = "secret length"
    /\ boot.conf.Devices # {}
    /\ boot.conf.Secret = [decodes |-> TRUE, len |-> SecretLen - 1]

C25_BoundedBufferNoCancelledEnqueue ==
    /\ Len(chainingJobs) <= RequestBufSize
    /\ \A r \in Reqs : cancelled[r] = "validated" =>
          (req[r].pc # "queued" /\ r \notin Elems(chainingJobs))

\* C26: a chained request cancelled while its backend call was in flight
\* does not advance the chain tip of its uid, and its caller gets no receipt.
C26_CancelledInFlightKeepsTip ==
    \A r \in Reqs : cancelled[r] = "signed" =>
        /\ r \notin Elems(committed)
        /\ identity[req[r].uid].signature # SigOf(r)
        /\ ~(response.to = r /\ response.body.kind = "receipt")

C30_CanonicalJSON ==
    doc.done = {1, 2} => doc.out1 = doc.out2

\* two texts with the top-level keys and the keys of a nested object in
\* different orders and with different whitespace, both canonicalised
C30_Witness ==
    /\ doc.done = {1, 2}
    /\ doc.in1.ws # doc.in2.ws
    /\ Len(doc.in1.members) = 2
    /\ doc.in1.members[1].k = "b" /\ doc.in2.members[1].k = "a"
    /\ \E i, j \in DOMAIN doc.in1.members :
          /\ doc.in1.members[i].k = doc.in2.members[j].k
          /\ doc.in1.members[i].v.t = "obj"
          /\ doc.in1.members[i].v # doc.in2.members[j].v
    /\ doc.out1 = doc.out2

\* ------------------------------------------------ claims on the payload
\* C31: a request on the hash route that carries the SHA-256 of the
\* canonical form of a JSON text and a request on the data route that carries
\* the text as application/json give envelopes with the same payload of
\* HashLen bytes.
C31_HashAndDataSamePayload ==
    (doc.pay1 # NoSum /\ doc.pay2 # NoSum) =>
        (doc.pay1 = doc.pay2 /\ doc.pay1.len = HashLen)

\* both envelopes are built, from texts that are not alike and not canonical
C31_Witness ==
    /\ doc.pay1 # NoSum /\ doc.pay2 # NoSum
    /\ doc.in1 # doc.in2
    /\ doc.in2 # GetSortedCompactJSON(doc.in2)
    /\ Len(doc.in2.members) = 2

\* --------------------------------------------- claims on the auth token
\* C32: the comparison of the auth token is constant-time: two supplied
\* tokens that differ from the stored token, at whatever positions, take the
\* comparison the same number of steps.
C32_ConstantTimeCompare ==
    (/\ auth.res1.done /\ auth.res2.done
     /\ auth.res1.err # "" /\ auth.res2.err # ""
     /\ Len(auth.in1) = Len(auth.stored) /\ Len(auth.in2) = Len(auth.stored)) =>
        auth.res1.steps = auth.res2.steps

\* ------------------------------------------- claims on the critical section
\* C33: at any time at most one request per uid is inside the critical
\* section of chained signing (from the read of the tip to the commit or
\* release), and the stored signature of an identity is written only by the
\* request that is inside the section of its uid.
C33_OneInSectionWritesTip ==
    [][/\ \A u \in Registered :
              Cardinality({r \in Reqs : InSection(r)' /\ req'[r].uid = u}) <= 1
       /\ \A u \in Registered : identity'[u].signature # identity[u].signature =>
              \E r \in Reqs : /\ InSection(r) /\ req[r].uid = u /\ tx[u] = r
                              /\ identity'[u].signature = SigOf(r)]_vars

\* a request has written the tip of its uid and the next request of the uid
\* is inside the section
C33_Witness ==
    /\ committed = <<1>>
    /\ InSection(2) /\ req[2].uid = req[1].uid
    /\ identity[req[1].uid].signature = SigOf(1)

\* --------------------------------------------- claims on rejected requests
\* the client's own 4xx: the answer of a handler that has built no envelope
OwnReject(resp) == resp.code \in 400..499 /\ resp.upp = NoUPP

C34_AcquireThenOneRelease ==
    /\ [][\A u \in Registered :
            /\ (tx[u] # 0 /\ tx'[u] # tx[u]) =>
                  (tx'[u] = 0 /\ InSection(tx[u]) /\ req'[tx[u]].pc = "done")
            /\ (tx[u] = 0 /\ tx'[u] # 0) =>
                  (req[tx'[u]].pc \in {"validated", "queued"} /\ req'[tx'[u]].pc = "locked")]_vars
    /\ \A u \in Registered : (tx[u] # 0) ~> (tx[u] = 0)
    /\ \A r \in Reqs : (req[r].pc \in {"validated", "queued"}) ~> (req[r].pc = "done")

\* the second request of a uid holds the transaction after the first one,
\* cancelled while the backend call was in flight, has released it
C34_Witness ==
    /\ req[1].pc = "done" /\ cancelled[1] = "signed"
    /\ req[2].uid = req[1].uid /\ tx[req[2].uid] = 2

\* ------------------------------------------------ claims on the shutdown
\* C37: every sign request that passed validation eventually gets exactly
\* one response, also when the shutdown begins while it waits; no handler
\* blocks forever on the enqueue or on its response channel.
C37_ValidatedGetsResponse ==
    /\ \A r \in Reqs : (req[r].pc \in {"validated", "queued"}) ~> (req[r].pc = "done")
    /\ [][\A r \in Reqs : (response'.to = r /\ response' # response) =>
              (req[r].pc # "done" /\ req'[r].pc = "done")]_vars

\* C38: the jobs channel is closed only when no handler can still enqueue:
\* no handler sends on the channel after it was closed.
C38_NoSendOnClosedChannel ==
    /\ \A r \in Reqs : req[r].pc # "panicked"
    /\ proc.jobs = "closed" => \A r \in Reqs : ~ENABLED SendOnClosed(r)

\* -------------------------------------------- claims on the WaitGroup main
\* C40: in the main with the WaitGroup, whenever the signal arrives, the
\* protocol context is saved only after the signer goroutine and the
\* goroutine of the HTTP server have finished, and the counter of the
\* WaitGroup never becomes negative.
C40_SavedAfterGoroutines ==
    /\ v1.saved => (v1.signer = "done" /\ v1.server = "done")
    /\ v1.counter >= 0

====
